---- MODULE Spec2Model ----
(***************************************************************************)
(* Online successive halving (creme/model_selection/sh.py).                *)
(*                                                                         *)
(* The scheduler state is the fields of SuccessiveHalving.  The learners   *)
(* and the metric are external collaborators: a learner is modelled by the *)
(* number of observations it has been trained on, a metric accumulator by  *)
(* the value its get() reports, and the value it reports after an update   *)
(* is an input of fit_one (any value of MetricVals).  eta is a rational    *)
(* number eta.num / eta.den.                                               *)
(***************************************************************************)
EXTENDS Integers, Sequences, FiniteSets, TLC

VARIABLES
    n,               \* self._n = len(models)
    eta,             \* self.eta, as [num, den]
    budget,          \* self.budget
    bigger_is_better,\* self.metric.bigger_is_better
    models,          \* self.models: id -> number of fit_one calls the learner received
    metrics,         \* self._metrics: id -> value reported by get()
    s,               \* self._s
    n_rungs,         \* self._n_rungs
    rankings,        \* self._rankings (sequence of ids, best first inside the prefix)
    r,               \* self._r
    budget_used,     \* self._budget_used
    n_iterations,    \* self._n_iterations
    best_model_idx,  \* self._best_model_idx
    events,          \* calls made on the collaborators by the last fit_one, in order
    observed,        \* history: number of fit_one calls completed
    boundary_at,     \* history: value of observed at the last rung boundary (0 if none)
    reassigned,      \* history: the reassignments of the best pointer in the last fit_one
    works_with,      \* metric.works_with(model), per supplied model
    raised           \* the exception __init__ raised, "none" if it returned

vars == <<n, eta, budget, bigger_is_better, models, metrics, s, n_rungs, rankings, r,
          budget_used, n_iterations, best_model_idx, events, observed, boundary_at,
          reassigned, works_with, raised>>

(***************************************************************************)
(* Bounds of the model.                                                    *)
(***************************************************************************)
MaxN == 3
MaxMetric == 1
MaxBudget == 8
MaxIter == 3
MaxIterAny == 2
RefMaxIter == 255

(***************************************************************************)
(* The configuration of the docstring example.                             *)
(***************************************************************************)
RefN == 10
RefEta == 2
RefBudget == 2000

Etas == { [num |-> 2, den |-> 1], [num |-> 3, den |-> 1], [num |-> 3, den |-> 2] }
MetricVals == 0..MaxMetric
Ids == 0..(n - 1)
\* the ids of self._rankings[:self._s]
Active == { rankings[k] : k \in 1..s }

(***************************************************************************)
(* Arithmetic of __init__ and of the rung boundary.                        *)
(***************************************************************************)
RECURSIVE Pow(_, _)
Pow(b, k) == IF k = 0 THEN 1 ELSE b * Pow(b, k - 1)

\* math.ceil(math.log(k, e)) for k >= 1 and e > 0, e # 1.
\* For e > 1 it is the least j with e^j >= k; for e < 1 it is -floor(log_(1/e)(k)),
\* minus the greatest j with (1/e)^j <= k.
\* (The floating-point quotient log(k)/log(e) rounds to the same integer for
\* every k <= 12 and every e of AnyEtas.)
CeilLogOf(k, e) ==
    IF e.num > e.den
    THEN CHOOSE j \in 0..(2 * k) :
             /\ Pow(e.num, j) >= k * Pow(e.den, j)
             /\ \A i \in 0..(j - 1) : Pow(e.num, i) < k * Pow(e.den, i)
    ELSE 0 - (CHOOSE j \in 0..(2 * k) :
             /\ Pow(e.den, j) <= k * Pow(e.num, j)
             /\ \A i \in (j + 1)..(2 * k) : Pow(e.den, i) > k * Pow(e.num, i))

CeilLog == CeilLogOf(n, eta)

\* math.floor(a / b) for b # 0
FloorDiv(a, b) == IF b > 0 THEN a \div b ELSE 0 - ((a + (0 - b) - 1) \div (0 - b))

\* Variant: math.ceil in place of math.floor.
RungLengthCeil(k) == 0 - FloorDiv(0 - budget, k * CeilLog)

\* math.floor(budget / (k * math.ceil(math.log(n, eta))))
RungLength(k) == FloorDiv(budget, k * CeilLog)

\* Variant: math.floor in place of math.ceil.
CutoffFloor(k) == (k * eta.den) \div eta.num

\* math.ceil(k / eta)
Cutoff(k) == (k * eta.den + eta.num - 1) \div eta.num

\* Variant: operator.gt whatever the orientation of the metric.
BetterIgnoringOrientation(a, b) == a > b

\* op(a, b) with op = operator.gt if bigger_is_better else operator.lt
Better(a, b) == IF bigger_is_better THEN a > b ELSE a < b

\* Variant: >= in place of ==.
RungBoundaryAtLeast(it) == s > 1 /\ it >= r

\* Variant: the counter is compared before it is incremented.
RungBoundaryBeforeIncrement(it) == s > 1 /\ it - 1 = r

\* Variant: the test self._s > 1 is missing.
RungBoundaryAnyS(it) == it = r

\* self._s > 1 and self._n_iterations == self._r, read after the increment
RungBoundary(it) == s > 1 /\ it = r

(***************************************************************************)
(* sorted(seq, key=metric value, reverse=bigger_is_better): a stable sort, *)
(* best value first; equal keys keep their order, also under reverse.      *)
(***************************************************************************)
\* Variant: an element is placed before the elements of equal key.
RECURSIVE InsertByKeyUnstable(_, _, _)
InsertByKeyUnstable(sorted, i, key) ==
    IF sorted = <<>> THEN <<i>>
    ELSE IF ~Better(key[Head(sorted)], key[i]) THEN <<i>> \o sorted
    ELSE <<Head(sorted)>> \o InsertByKeyUnstable(Tail(sorted), i, key)

RECURSIVE InsertByKey(_, _, _)
InsertByKey(sorted, i, key) ==
    IF sorted = <<>> THEN <<i>>
    ELSE IF Better(key[i], key[Head(sorted)]) THEN <<i>> \o sorted
    ELSE <<Head(sorted)>> \o InsertByKey(Tail(sorted), i, key)

RECURSIVE SortedFrom(_, _, _)
SortedFrom(done, rest, key) ==
    IF rest = <<>> THEN done
    ELSE SortedFrom(InsertByKey(done, Head(rest), key), Tail(rest), key)

SortedByMetric(seq, key) == SortedFrom(<<>>, seq, key)

\* Variant: the active prefix is left as it is.
RerankNoSort(rk, k, key) == rk

\* Variant: the whole list is sorted, not the active prefix.
RerankWholeList(rk, k, key) == SortedByMetric(rk, key)

\* self._rankings[:self._s] = sorted(self._rankings[:self._s], ...)
Rerank(rk, k, key) ==
    SortedByMetric(SubSeq(rk, 1, k), key) \o SubSeq(rk, k + 1, Len(rk))

(***************************************************************************)
(* The loop of fit_one over the active prefix.  st carries the fields the  *)
(* loop body reads and writes; v is the value the candidate's metric       *)
(* reports after its update.                                               *)
(***************************************************************************)
Event(op, i, state) == [op |-> op, id |-> i, state |-> state]

\* Variant: the learner is trained before it predicts.
EvalOneTrainFirst(st, i, v) ==
    LET trained == [st.models EXCEPT ![i] = @ + 1]
        y_pred  == trained[i]
        scored  == [st.metrics EXCEPT ![i] = v]
        log     == st.events \o << Event("fit_one", i, st.models[i]),
                                    Event("predict", i, trained[i]),
                                    Event("update", i, y_pred) >>
        moved   == i # st.best /\ Better(scored[i], scored[st.best])
    IN  [models |-> trained, metrics |-> scored, events |-> log,
         best |-> IF moved THEN i ELSE st.best,
         reassigned |-> IF moved
                        THEN Append(st.reassigned,
                                    [id |-> i, value |-> scored[i],
                                     from |-> st.best, from_value |-> scored[st.best]])
                        ELSE st.reassigned]

\* Variant: the pointer also moves when the two values are equal.
EvalOneOnTie(st, i, v) ==
    LET y_pred  == st.models[i]
        scored  == [st.metrics EXCEPT ![i] = v]
        trained == [st.models EXCEPT ![i] = @ + 1]
        log     == st.events \o << Event("predict", i, st.models[i]),
                                    Event("update", i, y_pred),
                                    Event("fit_one", i, st.models[i]) >>
        moved   == i # st.best /\ ~Better(scored[st.best], scored[i])
    IN  [models |-> trained, metrics |-> scored, events |-> log,
         best |-> IF moved THEN i ELSE st.best,
         reassigned |-> IF moved
                        THEN Append(st.reassigned,
                                    [id |-> i, value |-> scored[i],
                                     from |-> st.best, from_value |-> scored[st.best]])
                        ELSE st.reassigned]

EvalOne(st, i, v) ==
    LET y_pred  == st.models[i]              \* the prediction comes from this learner state
        scored  == [st.metrics EXCEPT ![i] = v]
        trained == [st.models EXCEPT ![i] = @ + 1]
        log     == st.events \o << Event("predict", i, st.models[i]),
                                    Event("update", i, y_pred),
                                    Event("fit_one", i, st.models[i]) >>
        moved   == i # st.best /\ Better(scored[i], scored[st.best])
    IN  [models |-> trained, metrics |-> scored, events |-> log,
         best |-> IF moved THEN i ELSE st.best,
         reassigned |-> IF moved
                        THEN Append(st.reassigned,
                                    [id |-> i, value |-> scored[i],
                                     from |-> st.best, from_value |-> scored[st.best]])
                        ELSE st.reassigned]

RECURSIVE Evaluate(_, _, _)
Evaluate(st, ids, out) ==
    IF ids = <<>> THEN st
    ELSE Evaluate(EvalOne(st, Head(ids), out[Head(ids)]), Tail(ids), out)

(***************************************************************************)
(* __init__ for a configuration (k models, rate e, budget b, orientation). *)
(***************************************************************************)
\* Variant: the best pointer starts at the last model.
ConstructBestLast(k, e, b, bib) ==
    /\ n = k
    /\ eta = e
    /\ budget = b
    /\ bigger_is_better = bib
    /\ models = [i \in 0..(k - 1) |-> 0]
    /\ metrics = [i \in 0..(k - 1) |-> 0]
    /\ s = k
    /\ n_rungs = 0
    /\ rankings = [i \in 1..k |-> i - 1]
    /\ r = RungLength(s)
    /\ budget_used = 0
    /\ n_iterations = 0
    /\ best_model_idx = k - 1
    /\ events = <<>>
    /\ observed = 0
    /\ boundary_at = 0
    /\ reassigned = <<>>
    /\ works_with = [i \in 0..(k - 1) |-> TRUE]
    /\ raised = "none"

Construct(k, e, b, bib) ==
    /\ n = k
    /\ eta = e
    /\ budget = b
    /\ bigger_is_better = bib
    /\ models = [i \in 0..(k - 1) |-> 0]
    /\ metrics = [i \in 0..(k - 1) |-> 0]
    /\ s = k
    /\ n_rungs = 0
    /\ rankings = [i \in 1..k |-> i - 1]
    /\ r = RungLength(s)
    /\ budget_used = 0
    /\ n_iterations = 0
    /\ best_model_idx = 0
    /\ events = <<>>
    /\ observed = 0
    /\ boundary_at = 0
    /\ reassigned = <<>>
    /\ works_with = [i \in 0..(k - 1) |-> TRUE]
    /\ raised = "none"

Init ==
    \E k \in 2..MaxN, e \in Etas, b \in 0..MaxBudget, bib \in BOOLEAN :
        Construct(k, e, b, bib)

(***************************************************************************)
(* __init__ on any arguments: k models, rate e >= 0, budget b, and for     *)
(* each model whether the metric works with it.  When __init__ raises, no  *)
(* object exists: its fields are Unset.                                    *)
(***************************************************************************)
Unset == "unset"

AnyEtas ==
    Etas \cup { [num |-> 1, den |-> 2], [num |-> 1, den |-> 1], [num |-> 0, den |-> 1] }

Failed(k, e, b, bib, works, exc) ==
    /\ n = k
    /\ eta = e
    /\ budget = b
    /\ bigger_is_better = bib
    /\ works_with = works
    /\ raised = exc
    /\ models = Unset
    /\ metrics = Unset
    /\ s = Unset
    /\ n_rungs = Unset
    /\ rankings = Unset
    /\ r = Unset
    /\ budget_used = Unset
    /\ n_iterations = Unset
    /\ best_model_idx = Unset
    /\ events = <<>>
    /\ observed = 0
    /\ boundary_at = 0
    /\ reassigned = <<>>

\* Variant: only the first model is checked against the metric.
NewChecksFirstOnly(k, e, b, bib, works) ==
    IF k > 0 /\ ~works[0]
    THEN Failed(k, e, b, bib, works, "ValueError")
    ELSE IF k = 0 \/ e.num = 0
    THEN Failed(k, e, b, bib, works, "ValueError")
    ELSE IF e.num = e.den \/ k * CeilLogOf(k, e) = 0
    THEN Failed(k, e, b, bib, works, "ZeroDivisionError")
    ELSE Construct(k, e, b, bib) /\ works_with = works

New(k, e, b, bib, works) ==
    IF \E i \in 0..(k - 1) : ~works[i]            \* lines 17-20
    THEN Failed(k, e, b, bib, works, "ValueError")
    ELSE IF k = 0 \/ e.num = 0                    \* math.log(0): math domain error
    THEN Failed(k, e, b, bib, works, "ValueError")
    ELSE IF e.num = e.den \/ k * CeilLogOf(k, e) = 0   \* log(eta) = 0, or the divisor is 0
    THEN Failed(k, e, b, bib, works, "ZeroDivisionError")
    ELSE Construct(k, e, b, bib)

InitAny ==
    \E k \in 0..MaxN, e \in AnyEtas, b \in 0..MaxBudget, bib \in BOOLEAN :
        \E works \in [0..(k - 1) -> BOOLEAN] : New(k, e, b, bib, works)

(***************************************************************************)
(* fit_one(x, y).  out[i] is the metric value of candidate i after its     *)
(* update on this observation.                                             *)
(***************************************************************************)
\* Variant: a rung boundary sets the best pointer to the head of the new ranking.
FitOneBestFromRanking(out) ==
    \E st \in { Evaluate([models |-> models, metrics |-> metrics, events |-> <<>>,
                          best |-> best_model_idx, reassigned |-> <<>>],
                         SubSeq(rankings, 1, s), out) } :   \* the fields after the loop
    LET it == n_iterations + 1
        cutoff == Cutoff(s)
    IN  /\ models' = st.models
        /\ metrics' = st.metrics
        /\ events' = st.events
        /\ reassigned' = st.reassigned
        /\ n_iterations' = it
        /\ observed' = observed + 1
        /\ IF RungBoundary(it)
           THEN /\ n_rungs' = n_rungs + 1
                /\ budget_used' = budget_used + s * r
                /\ rankings' = Rerank(rankings, s, st.metrics)
                /\ s' = cutoff
                /\ r' = RungLength(cutoff)
                /\ boundary_at' = observed + 1
                /\ best_model_idx' = Rerank(rankings, s, st.metrics)[1]
           ELSE /\ UNCHANGED <<n_rungs, budget_used, rankings, s, r, boundary_at>>
                /\ best_model_idx' = st.best
        /\ UNCHANGED <<n, eta, budget, bigger_is_better, works_with, raised>>

\* Variant: the next rung length is computed from the budget that is left.
FitOneRemainingBudget(out) ==
    \E st \in { Evaluate([models |-> models, metrics |-> metrics, events |-> <<>>,
                          best |-> best_model_idx, reassigned |-> <<>>],
                         SubSeq(rankings, 1, s), out) } :   \* the fields after the loop
    LET it == n_iterations + 1
        cutoff == Cutoff(s)
    IN  /\ models' = st.models
        /\ metrics' = st.metrics
        /\ events' = st.events
        /\ best_model_idx' = st.best
        /\ reassigned' = st.reassigned
        /\ n_iterations' = it
        /\ observed' = observed + 1
        /\ IF RungBoundary(it)
           THEN /\ n_rungs' = n_rungs + 1
                /\ budget_used' = budget_used + s * r
                /\ rankings' = Rerank(rankings, s, st.metrics)
                /\ s' = cutoff
                /\ r' = FloorDiv(budget - (budget_used + s * r), cutoff * CeilLog)
                /\ boundary_at' = observed + 1
           ELSE UNCHANGED <<n_rungs, budget_used, rankings, s, r, boundary_at>>
        /\ UNCHANGED <<n, eta, budget, bigger_is_better, works_with, raised>>

FitOne(out) ==
    \E st \in { Evaluate([models |-> models, metrics |-> metrics, events |-> <<>>,
                          best |-> best_model_idx, reassigned |-> <<>>],
                         SubSeq(rankings, 1, s), out) } :   \* the fields after the loop
    LET it == n_iterations + 1
        cutoff == Cutoff(s)
    IN  /\ models' = st.models
        /\ metrics' = st.metrics
        /\ events' = st.events
        /\ best_model_idx' = st.best
        /\ reassigned' = st.reassigned
        /\ n_iterations' = it
        /\ observed' = observed + 1
        /\ IF RungBoundary(it)
           THEN /\ n_rungs' = n_rungs + 1
                /\ budget_used' = budget_used + s * r
                /\ rankings' = Rerank(rankings, s, st.metrics)
                /\ s' = cutoff
                /\ r' = RungLength(cutoff)
                /\ boundary_at' = observed + 1
           ELSE UNCHANGED <<n_rungs, budget_used, rankings, s, r, boundary_at>>
        /\ UNCHANGED <<n, eta, budget, bigger_is_better, works_with, raised>>

Next == \E out \in [Active -> MetricVals] : n_iterations < MaxIter /\ FitOne(out)

Spec == Init /\ [][Next]_vars

\* fit_one on whatever __init__ returned
NextAny ==
    /\ raised = "none"
    /\ \E out \in [Active -> MetricVals] : n_iterations < MaxIterAny /\ FitOne(out)

SpecAny == InitAny /\ [][NextAny]_vars

(***************************************************************************)
(* The docstring example: 10 models, eta = 2, budget = 2000, MAE.          *)
(***************************************************************************)
RefOutcomes ==
    { [i \in Active |-> 0], [i \in Active |-> i % 2], [i \in Active |-> (i + 1) % 2] }

InitRef == Construct(RefN, [num |-> RefEta, den |-> 1], RefBudget, FALSE)

NextRef == \E out \in RefOutcomes : n_iterations < RefMaxIter /\ FitOne(out)

SpecRef == InitRef /\ [][NextRef]_vars

(***************************************************************************)
(* Vocabulary of the properties.                                           *)
(***************************************************************************)
\* a is at least as good as b for the orientation of the metric
AtLeastAsGood(a, b) == IF bigger_is_better THEN a >= b ELSE a <= b

\* candidate i lies outside the active prefix
Eliminated(i) == \E k \in (s + 1)..n : rankings[k] = i

\* more than one candidate is active and the counter has passed the rung location
Stuck == s > 1 /\ n_iterations >= r

\* from k active candidates with `passed` observations processed, every rung
\* location on the way to 1 is still ahead and not beyond `last`, and every
\* cutoff removes a candidate
RECURSIVE RungsAhead(_, _, _)
RungsAhead(k, passed, last) ==
    \/ k = 1
    \/ /\ passed < RungLength(k)
       /\ RungLength(k) <= last
       /\ Cutoff(k) < k
       /\ RungsAhead(Cutoff(k), RungLength(k), last)

(***************************************************************************)
(* C1.  Convergence.                                                       *)
(***************************************************************************)
\* C1 (as claimed): for every configuration with n >= 2, eta > 1, budget >= 0
\* the active count s reaches 1 on a long enough stream, the scheduler is
\* never stuck with s > 1: when the modelled stream of MaxIter observations
\* has been processed, s is 1 or the pending rung location is still ahead.
C1_Convergence == n_iterations = MaxIter => (s = 1 \/ n_iterations < r)

\* C1 (amended): s reaches 1 exactly when the rung locations r(s) along the
\* cutoff chain from n are positive and strictly increasing and every cutoff
\* on the chain is smaller than s.  Then every pending rung location stays
\* ahead of the counter, and s is 1 once the last location has been processed.
\* In any other configuration s never reaches 1: once the counter has reached
\* or passed r with s > 1, no rung boundary fires and s keeps its value.
C1_ConvergenceWhenRungsAhead ==
    /\ [](RungsAhead(n, 0, budget) => RungsAhead(s, n_iterations, budget))
    /\ [](RungsAhead(n, 0, MaxIter) /\ n_iterations = MaxIter => s = 1)
    /\ [](~RungsAhead(n, 0, budget) => s > 1)
    /\ [][Stuck => (Stuck' /\ s' = s)]_vars

C1_Witness == s = 1 /\ n_rungs = 2 /\ RungsAhead(n, 0, MaxIter)

(***************************************************************************)
(* C2.  The active count.                                                  *)
(***************************************************************************)
\* C2: for eta > 1, s never increases across a fit_one call and 1 <= s <= n;
\* Cutoff(k) <= k for every k >= 1 and Cutoff(1) = 1.
C2_ActiveCount ==
    /\ [](1 <= s /\ s <= n /\ Cutoff(1) = 1 /\ \A k \in 1..n : Cutoff(k) <= k)
    /\ [][s' <= s]_vars

C2_Witness == n_rungs >= 1 /\ s < n

(***************************************************************************)
(* C3.  When a rung boundary fires.                                        *)
(***************************************************************************)
\* C3 (as claimed): the counter is reset to 0 at every elimination, and a rung
\* boundary fires exactly when the observations processed since the previous
\* boundary (or since construction) equal r, provided s > 1.
C3_ResetAtBoundary ==
    [][ /\ (n_rungs' # n_rungs) <=> (s > 1 /\ observed' - boundary_at = r)
        /\ (n_rungs' # n_rungs) => n_iterations' = 0 ]_vars

\* C3 (amended): the counter is never reset, it counts the observations
\* processed since construction; a rung boundary fires exactly when that total
\* equals r, provided s > 1.
C3_CumulativeCounter ==
    [][ /\ n_iterations' = n_iterations + 1
        /\ n_iterations' = observed'
        /\ n_rungs' \in {n_rungs, n_rungs + 1}
        /\ (n_rungs' = n_rungs + 1) <=> (s > 1 /\ observed' = r) ]_vars

C3_Witness == n_rungs = 2 /\ observed = boundary_at

(***************************************************************************)
(* C4, C5.  The docstring example (SpecRef).                               *)
(***************************************************************************)
RefActive == <<10, 5, 3, 2, 1>>
RefUsed == <<0, 500, 1000, 1498, 1998>>

\* C4: with n = 10, eta = 2, budget = 2000 exactly four rung boundaries fire;
\* s goes 10 -> 5 -> 3 -> 2 -> 1 with budget_used 500, 1000, 1498, 1998, and s
\* stays 1 afterwards (all four have fired once 250 observations are in).
C4_ReferenceRungs ==
    /\ n_rungs \in 0..4
    /\ s = RefActive[n_rungs + 1]
    /\ budget_used = RefUsed[n_rungs + 1]
    /\ n_iterations >= 250 => n_rungs = 4

C4_Witness == n_rungs = 4 /\ s = 1 /\ budget_used = 1998 /\ observed > boundary_at

\* C5 (as claimed): rung 1 fires after 50 observations, rung 2 after 100
\* further, rung 3 after 66 further, rung 4 after 84 further.
C5_ReferenceTiming ==
    [][ n_rungs' # n_rungs =>
            observed' - boundary_at = <<50, 100, 66, 84>>[n_rungs'] ]_vars

\* C5 (amended): rung 1 fires after 50 observations, rung 2 after 50 further
\* (100 in total), rung 3 after 66 further (166), rung 4 after 84 further (250).
C5_ReferenceTimingCumulative ==
    [][ n_rungs' # n_rungs =>
            /\ observed' - boundary_at = <<50, 50, 66, 84>>[n_rungs']
            /\ observed' = <<50, 100, 166, 250>>[n_rungs'] ]_vars

C5_Witness == n_rungs = 4 /\ boundary_at = 250

(***************************************************************************)
(* C6, C7.  The best-so-far pointer.                                       *)
(***************************************************************************)
\* C6 (as claimed): the metric value of best_model observed after a fit_one
\* call is never worse than the value observed after the previous call.
C6_BestNeverWorsens ==
    [][ observed > 0 =>
            AtLeastAsGood(metrics'[best_model_idx'], metrics[best_model_idx]) ]_vars

\* C6 (amended): the metric value of best_model after a fit_one call is never
\* worse than the value the previous best candidate has after that call; it
\* can be worse than before the call when that candidate's own value worsened.
C6_BestNoWorseThanPreviousBest ==
    [][ AtLeastAsGood(metrics'[best_model_idx'], metrics'[best_model_idx]) ]_vars

C6_Witness == best_model_idx # 0 /\ Eliminated(best_model_idx) /\ observed > boundary_at

\* C7: after every fit_one call the best-so-far candidate's metric value is at
\* least as good as the value of every candidate, active or eliminated.
C7_BestIsBestOfAll ==
    observed > 0 =>
        \A j \in Ids : AtLeastAsGood(metrics[best_model_idx], metrics[j])

(***************************************************************************)
(* C8.  Elimination is permanent.                                          *)
(***************************************************************************)
\* C8: a candidate outside the active prefix is never scored or trained again,
\* stays outside the prefix and keeps its metric value.
C8_EliminationPermanent ==
    [][ \A i \in Ids :
            Eliminated(i) =>
                /\ Eliminated(i)'
                /\ metrics'[i] = metrics[i]
                /\ models'[i] = models[i]
                /\ \A e \in 1..Len(events') : events'[e].id # i ]_vars

C8_Witness == n_rungs = 2 /\ s < n /\ observed > boundary_at

(***************************************************************************)
(* C9.  Progressive validation.                                            *)
(***************************************************************************)
\* C9: in one fit_one call every active candidate, in ranking order, predicts
\* from the learner state it had before the call, has its metric updated with
\* that prediction, and only then is trained; once each.
C9_ScoreBeforeTrain ==
    [][ /\ Len(events') = 3 * s
        /\ \A k \in 1..s :
              LET i == rankings[k]
              IN  /\ events'[3 * k - 2] = Event("predict", i, models[i])
                  /\ events'[3 * k - 1] = Event("update", i, models[i])
                  /\ events'[3 * k] = Event("fit_one", i, models[i])
                  /\ models'[i] = models[i] + 1 ]_vars

C9_Witness == Len(events) >= 6 /\ observed >= 2 /\ n_rungs >= 1

C11_ZeroRungFiresEveryCall ==
    [][ (r = 0 /\ s > 1) => n_rungs' = n_rungs + 1 ]_vars

\* C11 (amended): when the rung length r is 0 and s > 1, no fit_one call ever
\* performs an elimination step: the counter is at least 1 when it is compared
\* with r, so s, r, the ranking and budget_used keep their values for ever.
C11_ZeroRungNeverFires ==
    [][ (r = 0 /\ s > 1) =>
            /\ n_rungs' = n_rungs /\ s' = s /\ r' = 0
            /\ rankings' = rankings /\ budget_used' = budget_used ]_vars

C11_Witness == r = 0 /\ s > 1 /\ observed >= 2 /\ budget < s * CeilLog

(***************************************************************************)
(* C12, C13.  Construction (SpecAny).                                      *)
(***************************************************************************)
\* C12: construction fails whenever eta <= 1 or n <= 1, so no scheduler with
\* such a configuration exists or processes an observation.
C12_InvalidConfigurationRejected ==
    (eta.num <= eta.den \/ n <= 1) => (raised # "none" /\ observed = 0)

\* C13: construction fails with an error when the metric does not work with
\* some supplied learner, whichever position it has in the list, and then no
\* field of the scheduler is set and no observation is processed.
C13_IncompatibleMetricRejected ==
    (\E i \in DOMAIN works_with : ~works_with[i]) =>
        /\ raised = "ValueError"
        /\ s = Unset /\ rankings = Unset /\ r = Unset /\ metrics = Unset
        /\ best_model_idx = Unset
        /\ observed = 0

C13_Witness == raised = "ValueError" /\ n >= 2 /\ works_with[0] /\ ~works_with[n - 1]

(***************************************************************************)
(* C14.  The state after construction.                                     *)
(***************************************************************************)
\* C14: before any observation s = n, budget_used = 0, the ranking is
\* 0..n-1 in order and best_model is the first candidate; best_model is
\* defined (an id of the pool) in every reachable state.
C14_InitialState ==
    /\ observed = 0 =>
          /\ s = n /\ budget_used = 0 /\ n_rungs = 0
          /\ rankings = [k \in 1..n |-> k - 1]
          /\ best_model_idx = 0
    /\ best_model_idx \in Ids

C14_Witness == observed = 0 /\ n >= 3 /\ s = n /\ best_model_idx = 0

(***************************************************************************)
(* C15.  The cutoff sequence.                                              *)
(***************************************************************************)
\* C15 (as claimed): for every eta > 1, also between 1 and 2, every rung
\* boundary strictly lowers s: cutoff(s) < s for the s >= 2 it is applied to.
C15_CutoffStrictlyDecreasing == [][ n_rungs' # n_rungs => s' < s ]_vars

\* C15 (amended): cutoff(s) <= s, and cutoff(s) < s exactly when
\* s >= eta / (eta - 1): for every s >= 2 when eta >= 2, but for 1 < eta < 2
\* the sequence stops at a fixed point above 1 (cutoff(2) = 2 for eta = 1.5).
C15_CutoffStrictFromThreshold ==
    /\ [](\A k \in 2..n :
            (Cutoff(k) < k) <=> (k * (eta.num - eta.den) >= eta.num))
    /\ [](eta.num >= 2 * eta.den => \A k \in 2..n : Cutoff(k) < k)
    /\ [][ n_rungs' # n_rungs =>
              /\ s' <= s
              /\ (s' = s) <=> (s * (eta.num - eta.den) < eta.num) ]_vars

C15_Witness == n_rungs = 1 /\ s = n /\ observed = boundary_at /\ eta.num < 2 * eta.den

(***************************************************************************)
(* C16.  Stability of the re-ranking.                                      *)
(***************************************************************************)
\* position of candidate i in the ranking rk
PosIn(rk, i) == CHOOSE k \in 1..n : rk[k] = i

\* a is strictly better than b for the orientation of the metric
StrictlyBetter(a, b) == IF bigger_is_better THEN a > b ELSE a < b

\* C16: at a rung boundary, for either orientation, two active candidates
\* with equal metric values keep their relative order in the ranking.
C16_StableRerank ==
    [][ n_rungs' # n_rungs =>
            \A a, b \in 1..s :
                (a < b /\ metrics'[rankings[a]] = metrics'[rankings[b]])
                    => PosIn(rankings', rankings[a]) < PosIn(rankings', rankings[b]) ]_vars

C16_Witness ==
    /\ n_rungs = 1 /\ observed = boundary_at /\ bigger_is_better /\ n = 3
    /\ metrics[1] = metrics[2] /\ metrics[0] # metrics[1]
    /\ rankings = <<1, 2, 0>>

(***************************************************************************)
(* C17.  Model updates and the budget.                                     *)
(***************************************************************************)
RECURSIVE UpdatesUpTo(_)
UpdatesUpTo(i) == IF i < 0 THEN 0 ELSE models[i] + UpdatesUpTo(i - 1)

\* number of fit_one calls made on the learners so far
TotalUpdates == UpdatesUpTo(n - 1)

\* C17: the total number of model updates never exceeds budget.
C17_UpdatesWithinBudget == TotalUpdates <= budget

(***************************************************************************)
(* C18.  Elimination keeps the best.                                       *)
(***************************************************************************)
\* C18: at a rung boundary exactly ceil(s / eta) of the s active candidates
\* are retained, and each retained candidate's metric value is at least as
\* good as that of each candidate eliminated at this boundary.
C18_EliminationKeepsBest ==
    [][ n_rungs' # n_rungs =>
            /\ s' * eta.num >= s * eta.den
            /\ (s' - 1) * eta.num < s * eta.den
            /\ { rankings'[k] : k \in 1..s } = { rankings[k] : k \in 1..s }
            /\ \A a \in 1..s', b \in (s' + 1)..s :
                  AtLeastAsGood(metrics'[rankings'[a]], metrics'[rankings'[b]]) ]_vars

C18_Witness ==
    /\ n_rungs >= 1 /\ observed = boundary_at /\ s < n
    /\ rankings # [k \in 1..n |-> k - 1]
    /\ \E a \in 1..s, b \in (s + 1)..n : metrics[rankings[a]] # metrics[rankings[b]]

(***************************************************************************)
(* C19, C20.  Reassignment of the best pointer.                            *)
(***************************************************************************)
\* the pointer after a call whose reassignments are log, starting from b
LastOf(log, b) == IF log = <<>> THEN b ELSE log[Len(log)].id

\* C19: the pointer is reassigned to i only when i is active, i is not the
\* current best and i's just-updated value is strictly better than the value
\* the current best has at that moment; otherwise it is left unchanged.
C19_ReassignedOnStrictImprovement ==
    [][ /\ \A e \in 1..Len(reassigned') :
              LET x == reassigned'[e]
              IN  /\ x.id \in Active
                  /\ x.id # x.from
                  /\ x.from = (IF e = 1 THEN best_model_idx ELSE reassigned'[e - 1].id)
                  /\ x.value = metrics'[x.id]
                  /\ x.from_value \in {metrics[x.from], metrics'[x.from]}
                  /\ StrictlyBetter(x.value, x.from_value)
        /\ best_model_idx' = LastOf(reassigned', best_model_idx)
        /\ best_model_idx' # best_model_idx => best_model_idx' \in Active ]_vars

C19_Witness == reassigned # <<>> /\ observed >= 2 /\ n_rungs >= 1

\* C20: a rung boundary leaves the pointer as the loop of that call left it;
\* a best-so-far candidate that is eliminated stays best_model exactly until
\* an active candidate's updated value strictly beats its frozen value.
C20_BoundaryKeepsBest ==
    [][ /\ n_rungs' # n_rungs => best_model_idx' = LastOf(reassigned', best_model_idx)
        /\ Eliminated(best_model_idx) =>
              /\ (best_model_idx' = best_model_idx) <=>
                     (\A i \in Active :
                          ~StrictlyBetter(metrics'[i], metrics[best_model_idx]))
              /\ best_model_idx' # best_model_idx =>
                     /\ best_model_idx' \in Active
                     /\ StrictlyBetter(metrics'[best_model_idx'],
                                       metrics[best_model_idx]) ]_vars

C20_Witness == Eliminated(best_model_idx) /\ observed = boundary_at + 1 /\ n_rungs >= 1

(***************************************************************************)
(* C21.  The rung length.                                                  *)
(***************************************************************************)
\* C21: between calls r = floor(budget / (s * ceil(log_eta(n)))), computed
\* from the original budget, the pool size n and the current s; budget (and
\* n, eta) are never modified.
C21_RungLengthInvariant ==
    /\ [](/\ r * (s * CeilLog) <= budget
          /\ budget < (r + 1) * (s * CeilLog))
    /\ [][ budget' = budget /\ n' = n /\ eta' = eta ]_vars

C21_Witness ==
    /\ n_rungs >= 1 /\ observed = boundary_at /\ s < n /\ r > 0
    /\ budget_used > 0
    /\ (r + 1) * (s * CeilLog) > budget - budget_used

(***************************************************************************)
(* C22.  The budget account.                                               *)
(***************************************************************************)
\* C22: for integer eta >= 2, budget_used never exceeds budget; budget_used
\* only grows, only at rung boundaries, by s * r with the s and r the
\* boundary started with.
C22_BudgetUsedWithinBudget ==
    /\ []((eta.den = 1 /\ eta.num >= 2) => budget_used <= budget)
    /\ [][ /\ budget_used' >= budget_used
           /\ n_rungs' = n_rungs => budget_used' = budget_used
           /\ n_rungs' # n_rungs => budget_used' = budget_used + s * r ]_vars

C22_Witness ==
    /\ eta.den = 1 /\ n_rungs = 2 /\ s = 1
    /\ budget_used > 0 /\ budget - budget_used < n

(***************************************************************************)
(* C23.  The ranking.                                                      *)
(***************************************************************************)
\* C23: the ranking is always a permutation of 0..n-1, and a rung boundary
\* only permutes the entries of the active prefix: the entries beyond
\* position s keep their places.
C23_RankingPermutation ==
    /\ [](/\ Len(rankings) = n
          /\ { rankings[k] : k \in 1..n } = Ids)
    /\ [][ /\ \A k \in (s + 1)..n : rankings'[k] = rankings[k]
           /\ { rankings'[k] : k \in 1..s } = { rankings[k] : k \in 1..s }
           /\ n_rungs' = n_rungs => rankings' = rankings ]_vars

C23_Witness ==
    /\ n_rungs = 2 /\ observed = boundary_at /\ Eliminated(rankings[n])
    /\ StrictlyBetter(metrics[rankings[n]], metrics[rankings[1]])

====
